---- MODULE Spec2Model ----
(***************************************************************************)
(* Model of synapse/python_dependencies.py: the dependency manifest         *)
(* (REQUIREMENTS, CONDITIONAL_REQUIREMENTS), the module-level fold that     *)
(* builds ALL_OPTIONAL_REQUIREMENTS, the module-level double-quote          *)
(* validation loop, list_requirements() and the __main__ block.             *)
(*                                                                         *)
(* A requirement specifier is a Python str: it is modelled as a tuple of    *)
(* one-character strings, so that `'"' in dep` and `req + "\n"` are         *)
(* computed on the characters.  A dict is modelled as the sequence of its   *)
(* items in insertion order (Python dicts iterate in insertion order).      *)
(***************************************************************************)
EXTENDS Naturals, Sequences, FiniteSets

VARIABLES
    REQUIREMENTS,               \* list of specifiers (line 43)
    CONDITIONAL_REQUIREMENTS,   \* dict name -> list of specifiers (line 96)
    ALL_OPTIONAL_REQUIREMENTS,  \* set of specifiers (line 123)
    modname,                    \* __name__ of the module (line 148)
    pc,                         \* position of the module body's execution
    foldIdx,                    \* position of the items() iterator (line 125)
    scanIdx,                    \* position of the itertools.chain iterator (line 134)
    raised,                     \* the exception that ended the module body
    returned,                   \* the lists returned by list_requirements() so far
    lookup,                     \* outcome of the last CONDITIONAL_REQUIREMENTS[name]
    pending,                    \* what the generator of line 151 has still to yield
    stdout,                     \* the lines written to sys.stdout
    threads                     \* per thread: position, partial set, last result

manifest == <<REQUIREMENTS, CONDITIONAL_REQUIREMENTS, ALL_OPTIONAL_REQUIREMENTS>>

vars == <<REQUIREMENTS, CONDITIONAL_REQUIREMENTS, ALL_OPTIONAL_REQUIREMENTS,
          modname, pc, foldIdx, scanIdx, raised, returned, lookup, pending,
          stdout, threads>>

----------------------------------------------------------------------------
(* Bounds of the model *)

\* specifiers declared in one manifest, over the required list and all groups
MaxTotal == 3
\* the same, in the specification with concurrent callers
MaxTotalConc == 2
\* calls of list_requirements() recorded in `returned`
MaxCalls == 2
\* concurrent callers
NumThreads == 2

----------------------------------------------------------------------------
(* Values *)

DoubleQuote == "\""
NewLine == "\n"

\* Requirement specifiers the manifests are drawn from: two without and two
\* with a double-quote (leading, trailing).
Specifiers ==
    { <<"a">>, <<"b">>, <<DoubleQuote, "a">>, <<"b", DoubleQuote>> }

\* Keys of CONDITIONAL_REQUIREMENTS the manifests are drawn from.
GroupNames == {"postgres", "systemd", "redis"}

\* Names a caller may subscript CONDITIONAL_REQUIREMENTS with.
QueryNames == GroupNames \cup {"nonexistent"}

Threads == 1..NumThreads

NoException == <<>>
NoLookup == [kind |-> "none"]
NoResult == [kind |-> "none"]
IdleThread == [pc |-> "idle", acc |-> {}, ret |-> NoResult]

\* set(xs) of a list
ToSet(xs) == {xs[i] : i \in 1..Len(xs)}

\* list(s) of a set: the elements once each, in an order Python does not define
ListsOf(s) ==
    {f \in [1..Cardinality(s) -> s] : \A i, j \in 1..Cardinality(s) : f[i] = f[j] => i = j}

----------------------------------------------------------------------------
(* The module body *)

\* variant: the excluded name is misspelt, so no key of the dict matches it
NotExcludedMisspelt(name) == name \notin {"systemd-python"}

\* line 128: name not in ["systemd"]
NotExcluded(name) == name \notin {"systemd"}

\* variant: the assignment drops the accumulator
FoldBodyOverwrite(name, optional_deps, acc) ==
    IF NotExcluded(name) THEN ToSet(optional_deps) ELSE acc

\* variant: the test of line 128 is missing
FoldBodyNoExclusion(name, optional_deps, acc) == ToSet(optional_deps) \cup acc

\* lines 128-129: one iteration of the fold over CONDITIONAL_REQUIREMENTS.items()
FoldBody(name, optional_deps, acc) ==
    IF NotExcluded(name) THEN ToSet(optional_deps) \cup acc ELSE acc

\* CONDITIONAL_REQUIREMENTS.values(), concatenated from item k on
RECURSIVE ChainValues(_, _)
ChainValues(cond, k) ==
    IF k > Len(cond) THEN <<>> ELSE cond[k].deps \o ChainValues(cond, k + 1)

\* the values of the groups the fold does not exclude, from item k on
RECURSIVE ChainBundledValues(_, _)
ChainBundledValues(cond, k) ==
    IF k > Len(cond) THEN <<>>
    ELSE (IF NotExcluded(cond[k].name) THEN cond[k].deps ELSE <<>>)
           \o ChainBundledValues(cond, k + 1)

\* variant: only the groups that enter ALL_OPTIONAL_REQUIREMENTS are validated
ChainBundledOnly(req, cond) == req \o ChainBundledValues(cond, 1)

\* variant: the optional groups are chained before REQUIREMENTS
ChainGroupsFirst(req, cond) == ChainValues(cond, 1) \o req

\* lines 134-137: itertools.chain(REQUIREMENTS, *CONDITIONAL_REQUIREMENTS.values())
Chain(req, cond) == req \o ChainValues(cond, 1)

\* line 138: '"' in dep
ContainsDoubleQuote(dep) == \E i \in 1..Len(dep) : dep[i] = DoubleQuote

\* lines 139-141: the exception and its formatted message: the text before the
\* specifier, the specifier, the text after it (the message's two grave accents
\* are written out, the lexer has no such character inside a string)
DependencyError(dep) ==
    <<"Exception", "Dependency (grave)", dep,
      "(grave) contains double-quote; use single-quotes instead">>

\* lines 98, 111, 118: the order in which the source declares the three keys
SourceOrder == <<"postgres", "systemd", "redis">>

\* lines 43-121: the literal data, here any manifest of at most total specifiers:
\* a flat sequence cut into the required list and the three groups' lists, the
\* keys declared in one of the given orders
ManifestInit(total, orders) ==
    \E n \in 0..total :
      \E flat \in [1..n -> Specifiers] :
        \E c1 \in 0..n :
          \E c2 \in c1..n :
            \E c3 \in c2..n :
              \E order \in orders :
                /\ REQUIREMENTS = SubSeq(flat, 1, c1)
                /\ CONDITIONAL_REQUIREMENTS =
                     << [name |-> order[1], deps |-> SubSeq(flat, c1 + 1, c2)],
                        [name |-> order[2], deps |-> SubSeq(flat, c2 + 1, c3)],
                        [name |-> order[3], deps |-> SubSeq(flat, c3 + 1, n)] >>

\* the state when the module body reaches the fold of line 125
StartOfBody ==
    /\ ALL_OPTIONAL_REQUIREMENTS = {}
    /\ pc = "fold"
    /\ foldIdx = 1
    /\ scanIdx = 1
    /\ raised = NoException
    /\ returned = <<>>
    /\ lookup = NoLookup
    /\ pending = <<>>
    /\ stdout = <<>>
    /\ threads = [t \in Threads |-> IdleThread]

Init ==
    /\ ManifestInit(MaxTotal, ListsOf(GroupNames))
    /\ modname \in {"__main__", "synapse.python_dependencies"}
    /\ StartOfBody

\* lines 125-129: one iteration of the fold
FoldStep ==
    /\ pc = "fold"
    /\ foldIdx <= Len(CONDITIONAL_REQUIREMENTS)
    /\ ALL_OPTIONAL_REQUIREMENTS' =
         FoldBody(CONDITIONAL_REQUIREMENTS[foldIdx].name,
                  CONDITIONAL_REQUIREMENTS[foldIdx].deps,
                  ALL_OPTIONAL_REQUIREMENTS)
    /\ foldIdx' = foldIdx + 1
    /\ UNCHANGED <<REQUIREMENTS, CONDITIONAL_REQUIREMENTS, modname, pc, scanIdx,
                   raised, returned, lookup, pending, stdout, threads>>

\* line 125: items() is exhausted, the body goes on to the validation loop
FoldDone ==
    /\ pc = "fold"
    /\ foldIdx > Len(CONDITIONAL_REQUIREMENTS)
    /\ pc' = "validate"
    /\ UNCHANGED <<REQUIREMENTS, CONDITIONAL_REQUIREMENTS, ALL_OPTIONAL_REQUIREMENTS,
                   modname, foldIdx, scanIdx, raised, returned, lookup, pending,
                   stdout, threads>>

\* lines 134-141: one iteration of the validation loop
ScanStep ==
    /\ pc = "validate"
    /\ scanIdx <= Len(Chain(REQUIREMENTS, CONDITIONAL_REQUIREMENTS))
    /\ LET dep == Chain(REQUIREMENTS, CONDITIONAL_REQUIREMENTS)[scanIdx]
       IN  IF ContainsDoubleQuote(dep)
           THEN /\ raised' = DependencyError(dep)
                /\ pc' = "failed"
                /\ scanIdx' = scanIdx
           ELSE /\ raised' = raised
                /\ pc' = pc
                /\ scanIdx' = scanIdx + 1
    /\ UNCHANGED <<REQUIREMENTS, CONDITIONAL_REQUIREMENTS, ALL_OPTIONAL_REQUIREMENTS,
                   modname, foldIdx, returned, lookup, pending, stdout, threads>>

\* lines 134, 148: the chain is exhausted; the body ends, or enters the __main__ block
ScanDone ==
    /\ pc = "validate"
    /\ scanIdx > Len(Chain(REQUIREMENTS, CONDITIONAL_REQUIREMENTS))
    /\ pc' = IF modname = "__main__" THEN "main" ELSE "ready"
    /\ UNCHANGED <<REQUIREMENTS, CONDITIONAL_REQUIREMENTS, ALL_OPTIONAL_REQUIREMENTS,
                   modname, foldIdx, scanIdx, raised, returned, lookup, pending,
                   stdout, threads>>

Load == FoldStep \/ FoldDone \/ ScanStep \/ ScanDone

----------------------------------------------------------------------------
(* list_requirements(), the dict and the __main__ block *)

\* line 145: set(REQUIREMENTS) | ALL_OPTIONAL_REQUIREMENTS
RequirementSet(req, allopt) == ToSet(req) \cup allopt

\* variant: the two collections are concatenated without set()
ListOfRequirementsConcat(req, allopt) == {req \o tail : tail \in ListsOf(allopt)}

\* line 145: list(...) of that set, every order the set's iteration may take
ListOfRequirements(req, allopt) == ListsOf(RequirementSet(req, allopt))

\* variant: the union is accumulated in the module global (|=)
ListRequirementsInPlace ==
    /\ pc = "ready"
    /\ Len(returned) < MaxCalls
    /\ ALL_OPTIONAL_REQUIREMENTS' = ToSet(REQUIREMENTS) \cup ALL_OPTIONAL_REQUIREMENTS
    /\ \E result \in ListsOf(ALL_OPTIONAL_REQUIREMENTS') :
         returned' = Append(returned, result)
    /\ UNCHANGED <<REQUIREMENTS, CONDITIONAL_REQUIREMENTS, modname, pc, foldIdx,
                   scanIdx, raised, lookup, pending, stdout, threads>>

\* lines 144-145: a caller that imported the module calls list_requirements()
ListRequirements ==
    /\ pc = "ready"
    /\ Len(returned) < MaxCalls
    /\ \E result \in ListOfRequirements(REQUIREMENTS, ALL_OPTIONAL_REQUIREMENTS) :
         returned' = Append(returned, result)
    /\ UNCHANGED <<REQUIREMENTS, CONDITIONAL_REQUIREMENTS, ALL_OPTIONAL_REQUIREMENTS,
                   modname, pc, foldIdx, scanIdx, raised, lookup, pending, stdout,
                   threads>>

\* lines 96-121: CONDITIONAL_REQUIREMENTS is a plain dict; cond[name] is the
\* list stored under the key, or KeyError when there is no such key
Subscript(cond, name) ==
    IF \E k \in 1..Len(cond) : cond[k].name = name
    THEN [kind |-> "list",
          val |-> cond[CHOOSE k \in 1..Len(cond) : cond[k].name = name].deps]
    ELSE [kind |-> "KeyError", key |-> name]

\* variant: the dict is a defaultdict(list): a missing key is created, empty
ListGroupDefault(name) ==
    /\ pc = "ready"
    /\ CONDITIONAL_REQUIREMENTS' =
         IF Subscript(CONDITIONAL_REQUIREMENTS, name).kind = "KeyError"
         THEN Append(CONDITIONAL_REQUIREMENTS, [name |-> name, deps |-> <<>>])
         ELSE CONDITIONAL_REQUIREMENTS
    /\ lookup' = [kind |-> "asked", name |-> name,
                   out |-> Subscript(CONDITIONAL_REQUIREMENTS', name)]
    /\ UNCHANGED <<REQUIREMENTS, ALL_OPTIONAL_REQUIREMENTS, modname, pc, foldIdx,
                   scanIdx, raised, returned, pending, stdout, threads>>

\* lines 96-121: a caller that imported the module reads one group of the dict
ListGroup(name) ==
    /\ pc = "ready"
    /\ lookup' = [kind |-> "asked", name |-> name,
                   out |-> Subscript(CONDITIONAL_REQUIREMENTS, name)]
    /\ UNCHANGED <<REQUIREMENTS, CONDITIONAL_REQUIREMENTS, ALL_OPTIONAL_REQUIREMENTS,
                   modname, pc, foldIdx, scanIdx, raised, returned, pending, stdout,
                   threads>>

\* line 151: the argument of writelines is built: list_requirements() is called
\* and the generator over its result is created
MainCall ==
    /\ pc = "main"
    /\ \E result \in ListOfRequirements(REQUIREMENTS, ALL_OPTIONAL_REQUIREMENTS) :
         pending' = result
    /\ pc' = "writing"
    /\ UNCHANGED <<REQUIREMENTS, CONDITIONAL_REQUIREMENTS, ALL_OPTIONAL_REQUIREMENTS,
                   modname, foldIdx, scanIdx, raised, returned, lookup, stdout,
                   threads>>

\* variant: the line terminator is left out
LineBare(req) == req

\* line 151: req + "\n"
Line(req) == req \o <<NewLine>>

\* line 151: writelines takes the next line of the generator and writes it
MainWrite ==
    /\ pc = "writing"
    /\ pending # <<>>
    /\ stdout' = Append(stdout, Line(Head(pending)))
    /\ pending' = Tail(pending)
    /\ UNCHANGED <<REQUIREMENTS, CONDITIONAL_REQUIREMENTS, ALL_OPTIONAL_REQUIREMENTS,
                   modname, pc, foldIdx, scanIdx, raised, returned, lookup, threads>>

\* line 151: the generator is exhausted, the program ends
MainExit ==
    /\ pc = "writing"
    /\ pending = <<>>
    /\ pc' = "exit"
    /\ UNCHANGED <<REQUIREMENTS, CONDITIONAL_REQUIREMENTS, ALL_OPTIONAL_REQUIREMENTS,
                   modname, foldIdx, scanIdx, raised, returned, lookup, pending,
                   stdout, threads>>

Next ==
    \/ Load
    \/ ListRequirements
    \/ \E name \in QueryNames : ListGroup(name)
    \/ MainCall
    \/ MainWrite
    \/ MainExit

Spec == Init /\ [][Next]_vars

----------------------------------------------------------------------------
(* Concurrent callers of the imported module.  A thread switch can happen      *)
(* between any two reads of a module global, so list_requirements() is three  *)
(* steps: set(REQUIREMENTS), | ALL_OPTIONAL_REQUIREMENTS, list(...).           *)

\* line 145: thread t enters list_requirements() and builds set(REQUIREMENTS)
ThreadBuildSet(t) ==
    /\ pc = "ready"
    /\ threads[t].pc = "idle"
    /\ threads' = [threads EXCEPT ![t] =
                     [pc |-> "built", acc |-> ToSet(REQUIREMENTS), ret |-> NoResult]]
    /\ UNCHANGED <<REQUIREMENTS, CONDITIONAL_REQUIREMENTS, ALL_OPTIONAL_REQUIREMENTS,
                   modname, pc, foldIdx, scanIdx, raised, returned, lookup, pending,
                   stdout>>

\* variant: the union is accumulated in the module global (|=)
ThreadUnionInPlace(t) ==
    /\ pc = "ready"
    /\ threads[t].pc = "built"
    /\ ALL_OPTIONAL_REQUIREMENTS' = threads[t].acc \cup ALL_OPTIONAL_REQUIREMENTS
    /\ threads' = [threads EXCEPT ![t] =
                     [pc |-> "united", acc |-> ALL_OPTIONAL_REQUIREMENTS',
                      ret |-> NoResult]]
    /\ UNCHANGED <<REQUIREMENTS, CONDITIONAL_REQUIREMENTS, modname, pc, foldIdx,
                   scanIdx, raised, returned, lookup, pending, stdout>>

\* line 145: thread t reads ALL_OPTIONAL_REQUIREMENTS and builds the union
ThreadUnion(t) ==
    /\ pc = "ready"
    /\ threads[t].pc = "built"
    /\ threads' = [threads EXCEPT ![t] =
                     [pc |-> "united",
                      acc |-> threads[t].acc \cup ALL_OPTIONAL_REQUIREMENTS,
                      ret |-> NoResult]]
    /\ UNCHANGED <<REQUIREMENTS, CONDITIONAL_REQUIREMENTS, ALL_OPTIONAL_REQUIREMENTS,
                   modname, pc, foldIdx, scanIdx, raised, returned, lookup, pending,
                   stdout>>

\* line 145: thread t builds the list and returns it
ThreadReturn(t) ==
    /\ pc = "ready"
    /\ threads[t].pc = "united"
    /\ \E result \in ListsOf(threads[t].acc) :
         threads' = [threads EXCEPT ![t] =
                       [pc |-> "idle", acc |-> {},
                        ret |-> [kind |-> "list_requirements", val |-> result]]]
    /\ UNCHANGED <<REQUIREMENTS, CONDITIONAL_REQUIREMENTS, ALL_OPTIONAL_REQUIREMENTS,
                   modname, pc, foldIdx, scanIdx, raised, returned, lookup, pending,
                   stdout>>

\* lines 96-121: thread t reads one group of the dict
ThreadListGroup(t, name) ==
    /\ pc = "ready"
    /\ threads[t].pc = "idle"
    /\ threads' = [threads EXCEPT ![t] =
                     [pc |-> "idle", acc |-> {},
                      ret |-> [kind |-> "group", name |-> name,
                               out |-> Subscript(CONDITIONAL_REQUIREMENTS, name)]]]
    /\ UNCHANGED <<REQUIREMENTS, CONDITIONAL_REQUIREMENTS, ALL_OPTIONAL_REQUIREMENTS,
                   modname, pc, foldIdx, scanIdx, raised, returned, lookup, pending,
                   stdout>>

\* line 123: thread t reads the module global ALL_OPTIONAL_REQUIREMENTS
ThreadAllOptional(t) ==
    /\ pc = "ready"
    /\ threads[t].pc = "idle"
    /\ threads' = [threads EXCEPT ![t] =
                     [pc |-> "idle", acc |-> {},
                      ret |-> [kind |-> "all_optional",
                               val |-> ALL_OPTIONAL_REQUIREMENTS]]]
    /\ UNCHANGED <<REQUIREMENTS, CONDITIONAL_REQUIREMENTS, ALL_OPTIONAL_REQUIREMENTS,
                   modname, pc, foldIdx, scanIdx, raised, returned, lookup, pending,
                   stdout>>

\* the module is imported once, by an application with several threads
InitConc ==
    /\ ManifestInit(MaxTotalConc, {SourceOrder})
    /\ modname = "synapse.python_dependencies"
    /\ StartOfBody

NextConc ==
    \/ Load
    \/ \E t \in Threads : ThreadBuildSet(t)
    \/ \E t \in Threads : ThreadUnion(t)
    \/ \E t \in Threads : ThreadReturn(t)
    \/ \E t \in Threads : \E name \in QueryNames : ThreadListGroup(t, name)
    \/ \E t \in Threads : ThreadAllOptional(t)

SpecConc == InitConc /\ [][NextConc]_vars
----------------------------------------------------------------------------
(* The vocabulary of the specification, stated on the manifest as declared *)

ExcludedGroupNames == {"systemd"}

RequiredSet == {REQUIREMENTS[i] : i \in 1..Len(REQUIREMENTS)}

GroupKeys == {CONDITIONAL_REQUIREMENTS[k].name : k \in 1..Len(CONDITIONAL_REQUIREMENTS)}

\* the specifiers declared by the groups whose name is in `names`
DeclaredBy(names) ==
    {s \in Specifiers :
        \E k \in 1..Len(CONDITIONAL_REQUIREMENTS) :
            /\ CONDITIONAL_REQUIREMENTS[k].name \in names
            /\ \E i \in 1..Len(CONDITIONAL_REQUIREMENTS[k].deps) :
                   CONDITIONAL_REQUIREMENTS[k].deps[i] = s}

BundledOptional == DeclaredBy(GroupKeys \ ExcludedGroupNames)

OnlyExcluded == DeclaredBy(ExcludedGroupNames) \ BundledOptional

Installable == RequiredSet \cup BundledOptional

HasQuote(s) == DoubleQuote \in {s[i] : i \in 1..Len(s)}

ManifestValid == \A s \in RequiredSet \cup DeclaredBy(GroupKeys) : ~HasQuote(s)

\* the optional groups' specifiers in declaration order, up to group k
RECURSIVE OptionalUpTo(_)
OptionalUpTo(k) ==
    IF k = 0 THEN <<>> ELSE OptionalUpTo(k - 1) \o CONDITIONAL_REQUIREMENTS[k].deps

\* scan order: RequiredSet first, then the optional groups in declaration order
ScanOrder == REQUIREMENTS \o OptionalUpTo(Len(CONDITIONAL_REQUIREMENTS))

FirstOffender ==
    CHOOSE p \in 1..Len(ScanOrder) :
        /\ HasQuote(ScanOrder[p])
        /\ \A q \in 1..(p - 1) : ~HasQuote(ScanOrder[q])

\* the results of list_requirements() the state holds: those returned to an
\* importing caller, and the one the __main__ block has just obtained
ListingResults ==
    {returned[i] : i \in 1..Len(returned)}
        \cup (IF pc = "writing" /\ stdout = <<>> THEN {pending} ELSE {})

Occurrences(xs, x) == Cardinality({i \in 1..Len(xs) : xs[i] = x})

\* some specifier is declared more than once in the manifest
DeclaredTwice ==
    \E s \in Specifiers :
        Occurrences(ScanOrder, s) > 1

----------------------------------------------------------------------------
(* C1: a manifest with a double-quote in any specifier, of the required list  *)
(* or of any group (the excluded ones too), never loads: the module body      *)
(* ends only with the exception, and no listing result, dict lookup or output *)
(* line is ever produced; a listing result exists only once the validation    *)
(* has passed over every specifier.                                           *)
ValidationFatality ==
    /\ ~ManifestValid =>
          /\ pc \in {"fold", "validate", "failed"}
          /\ returned = <<>> /\ lookup = NoLookup
          /\ pending = <<>> /\ stdout = <<>>
    /\ pc = "failed" => raised # NoException /\ ~ManifestValid
    /\ (ListingResults # {} \/ stdout # <<>>) =>
          /\ ManifestValid
          /\ scanIdx > Len(ScanOrder)
          /\ raised = NoException

\* the load has failed on a double-quote that only the excluded group declares
ValidationFatalityWitness ==
    /\ pc = "failed"
    /\ \A s \in RequiredSet \cup BundledOptional : ~HasQuote(s)
    /\ \E s \in OnlyExcluded : HasQuote(s)

(* C2: every specifier of the required list and of every group that is not   *)
(* excluded is in every result of list_requirements().                        *)
Completeness ==
    ManifestValid =>
        \A r \in ListingResults :
            \A s \in RequiredSet \cup BundledOptional :
                \E i \in 1..Len(r) : r[i] = s

\* a result was returned for a manifest whose two bundled groups declare
\* different specifiers
CompletenessWitness ==
    /\ returned # <<>>
    /\ DeclaredBy({"postgres"}) # {}
    /\ DeclaredBy({"redis"}) # {}
    /\ DeclaredBy({"postgres"}) # DeclaredBy({"redis"})

(* C3: a specifier declared only by excluded groups is not in                 *)
(* ALL_OPTIONAL_REQUIREMENTS, and the lookup of the excluded group that       *)
(* declares it still returns it.                                              *)
Exclusion ==
    ManifestValid =>
        /\ \A s \in OnlyExcluded : s \notin ALL_OPTIONAL_REQUIREMENTS
        /\ (lookup # NoLookup /\ lookup.name \in ExcludedGroupNames) =>
              /\ lookup.out.kind = "list"
              /\ \A s \in DeclaredBy({lookup.name}) :
                    \E i \in 1..Len(lookup.out.val) : lookup.out.val[i] = s

\* the excluded group was looked up and declares a specifier no other group has
ExclusionWitness ==
    /\ lookup # NoLookup
    /\ lookup.name = "systemd"
    /\ OnlyExcluded # {}
    /\ BundledOptional # {}

(* C4: every result of list_requirements() holds each installable specifier   *)
(* at exactly one position and no specifier at two.                           *)
Uniqueness ==
    ManifestValid =>
        \A r \in ListingResults :
            /\ \A i, j \in 1..Len(r) : r[i] = r[j] => i = j
            /\ \A s \in Installable : Occurrences(r, s) = 1

\* a result was returned for a manifest that declares an installable specifier
\* in the required list and in a bundled group, or twice in one list
UniquenessWitness ==
    /\ returned # <<>>
    /\ \E s \in Installable :
          Occurrences(ScanOrder, s) > 1
    /\ \E s \in RequiredSet : s \in BundledOptional

(* C5: the exception names the first specifier with a double-quote in scan    *)
(* order (the required list, then the groups in declaration order), and the   *)
(* scan never goes past that specifier.                                       *)
FirstViolationReported ==
    ~ManifestValid =>
        /\ scanIdx <= FirstOffender
        /\ pc = "failed" =>
              /\ scanIdx = FirstOffender
              /\ raised = DependencyError(ScanOrder[FirstOffender])
        /\ raised # NoException => pc = "failed"

\* the load has failed on a specifier of a group while a different offending
\* specifier comes later in the scan
FirstViolationWitness ==
    /\ pc = "failed"
    /\ FirstOffender > Len(REQUIREMENTS)
    /\ \E q \in (FirstOffender + 1)..Len(ScanOrder) :
          HasQuote(ScanOrder[q]) /\ ScanOrder[q] # ScanOrder[FirstOffender]

(* C6: when the __main__ block has ended, standard output holds one line per  *)
(* installable specifier, the specifier followed by a newline, each exactly   *)
(* once; nothing is written before the validation has passed, so a failed     *)
(* load leaves standard output empty.                                         *)
MainOutput ==
    /\ pc = "exit" =>
          /\ Len(stdout) = Cardinality(Installable)
          /\ \A s \in Installable : Occurrences(stdout, s \o <<NewLine>>) = 1
          /\ \A i \in 1..Len(stdout) :
                \E s \in Installable : stdout[i] = s \o <<NewLine>>
    /\ stdout # <<>> => ManifestValid /\ scanIdx > Len(ScanOrder)
    /\ (pc = "failed" \/ raised # NoException) => stdout = <<>>

\* the program has ended after writing two lines for a manifest that declares
\* a specifier twice
MainOutputWitness ==
    /\ pc = "exit"
    /\ Len(stdout) = 2
    /\ DeclaredTwice

(* C7: a call of list_requirements() leaves REQUIREMENTS,                     *)
(* CONDITIONAL_REQUIREMENTS and ALL_OPTIONAL_REQUIREMENTS as they were, and   *)
(* its result is equal as a set to the result of every earlier call.          *)
Idempotence ==
    [][returned' # returned =>
          /\ manifest' = manifest
          /\ \A i \in 1..Len(returned') :
                ToSet(returned'[i]) = ToSet(returned'[Len(returned')])]_vars

\* two calls have returned the same specifiers in different orders, some of
\* them from the required list alone
IdempotenceWitness ==
    /\ Len(returned) = 2
    /\ returned[1] # returned[2]
    /\ RequiredSet \ ALL_OPTIONAL_REQUIREMENTS # {}

(* C8: the lookup of a name that is no key of CONDITIONAL_REQUIREMENTS ends   *)
(* with an error, not with a list, and no lookup changes REQUIREMENTS,        *)
(* CONDITIONAL_REQUIREMENTS (no key is added) or ALL_OPTIONAL_REQUIREMENTS.   *)
UnknownGroup ==
    [][lookup' # lookup =>
          /\ manifest' = manifest
          /\ lookup'.name \notin GroupKeys => lookup'.out.kind = "KeyError"
          /\ lookup'.name \in GroupKeys => lookup'.out.kind = "list"]_vars

\* an unknown name was looked up
UnknownGroupWitness ==
    /\ lookup # NoLookup
    /\ lookup.name = "nonexistent"
    /\ lookup.out.kind = "KeyError"

(* C9: once the module is imported, no step of any thread changes the         *)
(* manifest, and whatever the interleaving each thread's call returns what    *)
(* the declared manifest determines: the installable specifiers once each,    *)
(* the group's declared list or the error, the bundled optional specifiers.   *)
ThreadResultAlone(t) ==
    LET ret == threads[t].ret
    IN  /\ ret.kind = "list_requirements" =>
              /\ ToSet(ret.val) = Installable
              /\ Len(ret.val) = Cardinality(Installable)
        /\ ret.kind = "all_optional" => ret.val = BundledOptional
        /\ ret.kind = "group" =>
              IF ret.name \in GroupKeys
              THEN /\ ret.out.kind = "list"
                   /\ \E k \in 1..Len(CONDITIONAL_REQUIREMENTS) :
                         /\ CONDITIONAL_REQUIREMENTS[k].name = ret.name
                         /\ CONDITIONAL_REQUIREMENTS[k].deps = ret.out.val
              ELSE ret.out.kind = "KeyError"

ConcurrentQueries ==
    [][pc = "ready" =>
          /\ manifest' = manifest
          /\ \A t \in Threads : ThreadResultAlone(t)']_vars

\* one thread has returned a list of two specifiers while another thread is
\* between its two reads of the module globals
ConcurrentQueriesWitness ==
    \E t, u \in Threads :
        /\ t # u
        /\ threads[t].ret.kind = "list_requirements"
        /\ Len(threads[t].ret.val) = 2
        /\ threads[u].pc = "built"
        /\ RequiredSet \ ALL_OPTIONAL_REQUIREMENTS # {}

(* C10: every specifier of every result of list_requirements() is declared   *)
(* in the required list or in a group that is not excluded.                   *)
NothingBeyondUnion ==
    ManifestValid =>
        \A r \in ListingResults :
            \A i \in 1..Len(r) : r[i] \in RequiredSet \cup BundledOptional

\* a result was returned for a manifest with a specifier that only the
\* excluded group declares
NothingBeyondUnionWitness ==
    /\ returned # <<>>
    /\ OnlyExcluded \ RequiredSet # {}
    /\ RequiredSet # {}
    /\ BundledOptional # {}
====
